---- MODULE Spec2Model ----
(***************************************************************************)
(* Model of the PEM electrolyzer cluster engine                            *)
(*   src/hybrid/PEM_Model_2Push/PEM_H2_LT_electrolyzer_Clusters.py         *)
(* (class PEM_H2_Clusters).                                                *)
(*                                                                         *)
(* The source computes with IEEE doubles over numpy arrays.  The model     *)
(* computes with integers in fixed point, an array being a sequence        *)
(* (index t of the source is index t+1 here):                              *)
(*     power      1 unit = 1 W      = 10^-3 kW                             *)
(*     current    1 unit = 1 mA     = 10^-3 A                              *)
(*     voltage    1 unit = 10^-8 V  (cell voltage and degradation alike)   *)
(*     hydrogen   1 unit = 1 mg/hr  = 10^-6 kg/hr                          *)
(* Products and quotients are taken without intermediate overflow by       *)
(* MulDiv, rounding toward zero.  A float NaN is the value NaN.            *)
(*                                                                         *)
(* A value that the source computes once and uses several times is passed  *)
(* on as an operator argument or bound by a quantifier over a one-element  *)
(* set, in the order of the statements of the source.                      *)
(***************************************************************************)
EXTENDS Integers, Sequences, FiniteSets, TLC

(***************************************************************************)
(* Fixed-point arithmetic.                                                 *)
(***************************************************************************)

Abs(x) == IF x < 0 THEN -x ELSE x
Sgn(x) == IF x < 0 THEN -1 ELSE 1
Min2(a, b) == IF a < b THEN a ELSE b
Max2(a, b) == IF a > b THEN a ELSE b

\* quotient q and remainder rem < 2*c brought to <<quotient, remainder < c>>
QRsum(q, rem, c) == <<(rem \div c) + q, rem % c>>

\* from h = <<q, r>> of a*b' to that of a*(B*b' + d), d < B and B*c within
\* 32 bits
QRstep(h, a, d, c, B) ==
    QRsum(((a \div c) * d) + (((a % c) * d) \div c) + ((B * h[2]) \div c)
              + (B * h[1]),
          (((a % c) * d) % c) + ((B * h[2]) % c), c)

\* a*b = q*c + r with 0 <= r < c, for a, b >= 0 and 0 < c < 2^30: the
\* product is taken directly when it fits 32 bits, else digit by digit of b
\* in the base 2^31 \div c
RECURSIVE MulDivQR(_, _, _)
MulDivQR(a, b, c) ==
    IF a = 0 \/ b <= 2147483647 \div a THEN <<(a * b) \div c, (a * b) % c>>
    ELSE QRstep(MulDivQR(a, b \div (2147483647 \div c), c), a,
                b % (2147483647 \div c), c, 2147483647 \div c)

\* (a*b) \div 10^8 for a, b >= 0, from the halves of a and b in base 10^4
MulDivE8(a, b) ==
    ((a \div 10000) * (b \div 10000))
    + (((a \div 10000) * (b % 10000)) \div 10000)
    + (((a % 10000) * (b \div 10000)) \div 10000)
    + (((((a \div 10000) * (b % 10000)) % 10000)
        + (((a % 10000) * (b \div 10000)) % 10000)
        + (((a % 10000) * (b % 10000)) \div 10000)) \div 10000)

\* (a*b)/c rounded toward zero; b >= 0, c > 0
MulDiv(a, b, c) ==
    IF c = 100000000 THEN Sgn(a) * MulDivE8(Abs(a), b)
    ELSE Sgn(a) * MulDivQR(Abs(a), b, c)[1]

\* ceil((a*b)/c) for a, b >= 0
CeilQR(qr) == IF qr[2] = 0 THEN qr[1] ELSE qr[1] + 1
MulDivCeil(a, b, c) == CeilQR(MulDivQR(a, b, c))

\* x/c rounded toward zero, c > 0
DivZ(x, c) == Sgn(x) * (Abs(x) \div c)

\* one digit in base 36 of floor(sqrt(n)): the greatest d in 0..35 with
\* (base + d*unit)^2 <= n; 46340 is floor(sqrt(2^31 - 1))
SqrtDigit(n, base, unit) ==
    CHOOSE d \in 0..35 :
        /\ (base + d * unit) * (base + d * unit) <= n
        /\ \/ d = 35
           \/ base + (d + 1) * unit > 46340
           \/ (base + (d + 1) * unit) * (base + (d + 1) * unit) > n

\* floor(sqrt(n)) from the digits found so far
SqrtFrom(n, base, unit) == base + SqrtDigit(n, base, unit) * unit

\* floor(sqrt(n)), 0 <= n < 2^31, in three digits
ISqrt(n) == SqrtFrom(n, SqrtFrom(n, SqrtFrom(n, 0, 1296), 36), 1)

\* the floats NaN, inf and -inf (no number of the model is this large)
NaN == -2000000000
Inf == 2000000001
NegInf == -2000000001

\* a numpy array holds its values: the sequence is built once
arr(f) == f \o <<>>

\* np.zeros(n)
zeros(n) == arr([t \in 1..n |-> 0])

\* the positions of the TRUE entries of a boolean series, in order
positions(mask) ==
    SelectSeq(arr([j \in 1..Len(mask) |-> j]), LAMBDA j : mask[j])

\* s[idx]
take(s, idx) == arr([k \in 1..Len(idx) |-> s[idx[k]]])

\* s[lo-1] + ... + s[hi-1]
RECURSIVE RangeSum(_, _, _)
RangeSum(s, lo, hi) ==
    IF lo > hi THEN 0
    ELSE IF lo = hi THEN s[lo]
    ELSE RangeSum(s, lo, (lo + hi) \div 2)
            + RangeSum(s, (lo + hi) \div 2 + 1, hi)

\* np.sum
sum(s) == RangeSum(s, 1, Len(s))

\* np.cumsum
cumsum(s) == arr([t \in 1..Len(s) |-> RangeSum(s, 1, t)])

(***************************************************************************)
(* Configuration set by __init__.                                          *)
(***************************************************************************)
stack_rating_kW == 1000
N_cells == 130
cell_active_area == 1920
dt == 3600
startup_time == 600
dt_fatigue_calc_hrs == 168
nbins == 10

\* model units per kW, per A
W_PER_KW == 1000
MA_PER_A == 1000

(***************************************************************************)
(* Cell electrochemistry at the stack temperature T_C = 80.                *)
(***************************************************************************)

\* calc_reversible_cell_voltage(80) = 1.21466100 V
calc_reversible_cell_voltage == 121466100

\* calc_V_act(80, I, 1920) at the currents VactI (mA), in 10^-8 V.  np.arcsinh
\* has no counterpart here: the curve is tabulated at round currents and at
\* the currents the curve gives for 0.5, 25, 50, 250, 500, 750 and 1000 kW,
\* and interpolated linearly in between
VactI == <<0, 1000, 5000, 15349, 20000, 23108, 50000, 100000, 114798, 200000,
           228080, 400000, 700000, 1000000, 1051744, 1500000, 2000000,
           2003598, 2500000, 2902480, 3000000, 3500000, 3760781, 4000000,
           5000000>>
VactV == <<0, 12756797, 18140630, 24904097, 26781128, 27828643, 33574610,
           38821170, 39868893, 44087647, 45086609, 49359155, 53616113,
           56329461, 56713254, 59414029, 61602583, 61616257, 63300163,
           64435783, 64687189, 65859904, 66406613, 66875756, 68573342>>

\* the segment of the table that holds the current i >= 0
VactSeg(i) ==
    CHOOSE k \in 1..(Len(VactI) - 1) :
        /\ k = 1 \/ i >= VactI[k]
        /\ k = Len(VactI) - 1 \/ i < VactI[k + 1]

\* the table value at i, in segment k
VactInterpolate(i, k) ==
    VactV[k] + MulDiv(i - VactI[k], VactV[k + 1] - VactV[k],
                      VactI[k + 1] - VactI[k])

\* arcsinh is odd: V_act(-I) = -V_act(I)
calc_V_act(I_stack) ==
    Sgn(I_stack) * VactInterpolate(Abs(I_stack), VactSeg(Abs(I_stack)))

\* (I/area) * (R_cell + R_elec) = I[A] * 4.4328260e-5 V
calc_V_ohmic(I_stack) == MulDiv(I_stack * 10, 44328260, 100000000)

cell_design(Stack_Current) ==
    calc_reversible_cell_voltage + calc_V_act(Stack_Current)
        + calc_V_ohmic(Stack_Current)

(***************************************************************************)
(* Characteristic curve: current as a function of stack power.             *)
(***************************************************************************)

\* The least-squares solution of the fit of calc_current to the points
\* (I * cell_design(I) * N_cells / 1000, I), I = 384, 394, ..., 3844 A:
\*   p1 = 6.757494e-8, p2 = -4.247972e-4, p3 = 3.8808358, p4 = 8.2308869,
\*   p5 = -23.108067, and p6, which calc_current does not use, left at its
\*   initial guess 1.  Scaled by 10^14, 10^10, 10^7, 10^7, 10^6, 1.
iv_curve == <<6757494, -4247972, 38808358, 82308869, -23108067, 1>>

\* p1*pwr^3 + p2*pwr^2 + p3*pwr + p4*pwr^(1/2) + p5 with sq = pwr^2 / 1000
calc_current_terms(pwr, sq, p) ==
    Sgn(p[1]) * DivZ(MulDiv(MulDiv(sq, pwr, 1000000), Abs(p[1]), 100000000),
                     1000)
    + Sgn(p[2]) * DivZ(MulDiv(sq, Abs(p[2]), 100000000), 100)
    + Sgn(p[3]) * MulDiv(pwr * 10, Abs(p[3]), 100000000)
    + Sgn(p[4]) * MulDiv(ISqrt(pwr * 1000) * 10, Abs(p[4]), 100000000)
    + DivZ(p[5], 1000)

\* i_stack = p1*pwr^3 + p2*pwr^2 + p3*pwr + p4*pwr^(1/2) + p5, pwr in kW;
\* pwr^(1/2) of a negative float is NaN
calc_current(pwr, p) ==
    IF pwr < 0 THEN NaN
    ELSE calc_current_terms(pwr, MulDiv(pwr, pwr, 1000), p)

(***************************************************************************)
(* Dispatch policy.                                                        *)
(***************************************************************************)

\* cap on the power taken from the supply, max_stacks * stack_rating_kW
cluster_cap(max_stacks) == max_stacks * stack_rating_kW * W_PER_KW

\* power_curtailed_kw, stored as output_dict['Curtailed Power [kWh]']
power_curtailed_kw_one_stack(input_external_power_kw, max_stacks) ==
    arr([t \in 1..Len(input_external_power_kw) |->
        IF input_external_power_kw[t] > stack_rating_kW * W_PER_KW
        THEN input_external_power_kw[t] - stack_rating_kW * W_PER_KW
        ELSE 0])
power_curtailed_kw(input_external_power_kw, max_stacks) ==
    arr([t \in 1..Len(input_external_power_kw) |->
        IF input_external_power_kw[t] > cluster_cap(max_stacks)
        THEN input_external_power_kw[t] - cluster_cap(max_stacks)
        ELSE 0])

\* the value external_power_supply returns
external_power_supply(input_external_power_kw, max_stacks) ==
    arr([t \in 1..Len(input_external_power_kw) |->
        IF input_external_power_kw[t] > cluster_cap(max_stacks)
        THEN cluster_cap(max_stacks)
        ELSE input_external_power_kw[t]])

\* cluster_min_power = 0.1*cluster_size_mw is compared with a power in kW:
\* input [kW] < 0.1 * cluster_size_mw  <=>  10 * input [W] < 1000 * cluster_size_mw
system_design_stack_count(input_power_kw, cluster_size_mw) ==
    arr([t \in 1..Len(input_power_kw) |->
        IF 10 * input_power_kw[t] < cluster_size_mw * W_PER_KW THEN 0
        ELSE MulDivCeil(input_power_kw[t], 1, stack_rating_kW * W_PER_KW)])
system_design(input_power_kw, cluster_size_mw) ==
    arr([t \in 1..Len(input_power_kw) |->
        IF 10 * input_power_kw[t] < cluster_size_mw * W_PER_KW THEN 0 ELSE 1])

\* [x[0]] + list(np.diff(x))
cluster_cycling(cluster_status) ==
    arr([t \in 1..Len(cluster_status) |->
        IF t = 1 THEN cluster_status[1]
        ELSE cluster_status[t] - cluster_status[t - 1]])

\* h2_multiplier = np.where(cluster_cycling > 0, startup_ratio, 1) applied to a
\* production h, with startup_ratio = 1 - startup_time/dt
h2_multiplier_no_change(cycling, h) ==
    IF cycling >= 0 THEN MulDiv(h, dt - startup_time, dt) ELSE h
h2_multiplier_unscaled(cycling, h) == h
h2_multiplier(cycling, h) ==
    IF cycling > 0 THEN MulDiv(h, dt - startup_time, dt) ELSE h

\* np.where(n_stacks_op > 0, input_power_kw / n_stacks_op, 0)
power_per_stack_undivided(input_power_kw, n_stacks_op) ==
    arr([t \in 1..Len(input_power_kw) |->
        IF n_stacks_op[t] > 0 THEN input_power_kw[t] ELSE 0])
power_per_stack(input_power_kw, n_stacks_op) ==
    arr([t \in 1..Len(input_power_kw) |->
        IF n_stacks_op[t] > 0 THEN DivZ(input_power_kw[t], n_stacks_op[t])
        ELSE 0])

(***************************************************************************)
(* Rain-flow cycle counting (rainflow.count_cycles with nbins = 10).       *)
(***************************************************************************)

\* the latest k in lo..hi with series[k] # series[k - 1], 0 when there is
\* none: k = hi, else the latest in the upper half, else in the lower half
RECURSIVE rf_last_change(_, _, _)
rf_or_else(k, series, lo, hi) ==
    IF k # 0 THEN k ELSE rf_last_change(series, lo, hi)
rf_last_change(series, lo, hi) ==
    IF lo > hi THEN 0
    ELSE IF series[hi] # series[hi - 1] THEN hi
    ELSE rf_or_else(rf_last_change(series, (lo + hi - 1) \div 2 + 1, hi - 1),
                    series, lo, (lo + hi - 1) \div 2)
rf_d_at(series, k) == IF k = 0 THEN 0 ELSE series[k] - series[k - 1]
\* d_last of rainflow.reversals once sample j is read: the latest difference
\* of two samples in a row that is not zero (0 while the series is constant)
rf_d_last(series, j) == rf_d_at(series, rf_last_change(series, 2, j))

\* sample j is yielded when sample j + 1 is read: d_last * d_next < 0
rf_turns(series, j) ==
    /\ j >= 2
    /\ \/ rf_d_last(series, j) < 0 /\ series[j + 1] - series[j] > 0
       \/ rf_d_last(series, j) > 0 /\ series[j + 1] - series[j] < 0

\* rainflow.reversals: the first sample, the turning points, and (when the
\* series has three samples or more) the last sample
rf_reversals(series) ==
    IF Len(series) < 2 THEN <<>>
    ELSE IF Len(series) = 2 THEN <<series[1]>>
    ELSE <<series[1]>>
         \o take(series, positions(arr([j \in 1..(Len(series) - 1) |->
                                          rf_turns(series, j)])))
         \o <<series[Len(series)]>>

\* the while loop of rainflow.extract_cycles on the points read so far; a
\* cycle is <<range, 2*count>>
RECURSIVE rf_reduce(_, _)
rf_reduce(points, out) ==
    IF Len(points) < 3 THEN <<points, out>>
    ELSE IF Abs(points[Len(points)] - points[Len(points) - 1])
              < Abs(points[Len(points) - 1] - points[Len(points) - 2])
    THEN <<points, out>>
    ELSE IF Len(points) = 3
    THEN rf_reduce(Tail(points),
                   Append(out, <<Abs(points[2] - points[1]), 1>>))
    ELSE rf_reduce(Append(SubSeq(points, 1, Len(points) - 3),
                          points[Len(points)]),
                   Append(out, <<Abs(points[Len(points) - 1]
                                      - points[Len(points) - 2]), 2>>))

\* the remaining ranges count as half cycles
rf_tail(points) ==
    IF Len(points) < 2 THEN <<>>
    ELSE arr([k \in 1..(Len(points) - 1) |->
                <<Abs(points[k] - points[k + 1]), 1>>])

\* the for loop of extract_cycles over the reversals lo..hi (lo <= hi), from
\* r = <<points, cycles so far>>: one reversal, or the first half of them and
\* then the second; the while loop is not entered with fewer than three
\* points
RECURSIVE rf_scan(_, _, _, _)
rf_scan(revs, lo, hi, r) ==
    IF Len(r[1]) < 2 /\ lo = hi THEN <<Append(r[1], revs[lo]), r[2]>>
    ELSE IF lo = hi THEN rf_reduce(Append(r[1], revs[lo]), r[2])
    ELSE rf_scan(revs, (lo + hi) \div 2 + 1, hi,
                 rf_scan(revs, lo, (lo + hi) \div 2, r))

\* the cycles closed in the loop, then the remaining ranges
rf_cycles(r) == r[2] \o rf_tail(r[1])

\* rainflow.extract_cycles on the reversals
rf_extract(revs) ==
    IF revs = <<>> THEN <<>>
    ELSE rf_cycles(rf_scan(revs, 1, Len(revs), <<<<>>, <<>>>>))

extract_cycles(series) == rf_extract(rf_reversals(series))

\* max(series) - min(series), which is nbins * binsize
RECURSIVE SeqMax(_, _, _)
SeqMax(s, lo, hi) ==
    IF lo = hi THEN s[lo]
    ELSE Max2(SeqMax(s, lo, (lo + hi) \div 2),
              SeqMax(s, (lo + hi) \div 2 + 1, hi))
RECURSIVE SeqMin(_, _, _)
SeqMin(s, lo, hi) ==
    IF lo = hi THEN s[lo]
    ELSE Min2(SeqMin(s, lo, (lo + hi) \div 2),
              SeqMin(s, (lo + hi) \div 2 + 1, hi))
rf_span(series) ==
    SeqMax(series, 1, Len(series)) - SeqMin(series, 1, Len(series))

\* sum of n * (2*count) over the cycles, n = ceil(range / binsize) the bin
rf_bins(cycles, span) ==
    sum(arr([i \in 1..Len(cycles) |->
                MulDivCeil(cycles[i][1], nbins, span) * cycles[i][2]]))

\* count_cycles on the cycles found: a constant series that yields a cycle
\* raises ValueError (0/0 is NaN, math.ceil(NaN) raises); else
\* rf_sum = np.sum([pair[0] * pair[1] for pair in rf_cycles]), the bin edges
\* n * binsize times the counts, in 10^-6 V
count_cycles_binned(cycles, span) ==
    IF cycles = <<>> THEN [raises |-> FALSE, rf_sum |-> 0]
    ELSE IF span = 0 THEN [raises |-> TRUE, rf_sum |-> 0]
    ELSE [raises |-> FALSE,
          rf_sum |-> MulDiv(span, rf_bins(cycles, span), 2 * nbins * 100)]

\* rainflow.count_cycles(series, nbins=10) and the sum taken of it; an empty
\* series raises ValueError (max of nothing)
count_cycles(series) ==
    IF Len(series) = 0 THEN [raises |-> TRUE, rf_sum |-> 0]
    ELSE count_cycles_binned(extract_cycles(series), rf_span(series))

(***************************************************************************)
(* Degradation.                                                            *)
(***************************************************************************)

\* steady_deg_rate = 1.41737929e-10 V/s, scaled by 10^18
steady_deg_rate == 141737929
\* onoff_deg_rate = 1.47821515e-04 V per off-cycle, in 10^-8 V
onoff_deg_rate == 14782
\* rate_fatigue = 3.33330244e-07, scaled by 10^14
rate_fatigue == 33333024
\* d_eol = 0.7212 V
d_eol == 72120000

\* steady_deg_per_hr = dt * steady_deg_rate * voltage_signal * cluster_status
calc_uptime_degradation_every_step(voltage_signal, cluster_status) ==
    arr([t \in 1..Len(voltage_signal) |->
        DivZ(MulDiv(MulDiv(200000000, steady_deg_rate, 100000000),
                    dt, 100000000), 100)])
calc_uptime_degradation(voltage_signal, cluster_status) ==
    arr([t \in 1..Len(voltage_signal) |->
        DivZ(MulDiv(MulDiv(voltage_signal[t], steady_deg_rate, 100000000),
                    dt, 100000000), 100) * cluster_status[t]])

\* cycle_cnt: np.where(change_stack < 0, -1*change_stack, 0) with a leading 0
cycle_cnt_signed(cluster_status) ==
    arr([t \in 1..Len(cluster_status) |->
        IF t = 1 THEN 0
        ELSE IF cluster_status[t] - cluster_status[t - 1] < 0
             THEN cluster_status[t] - cluster_status[t - 1]
             ELSE 0])
cycle_cnt_any_change(cluster_status) ==
    arr([t \in 1..Len(cluster_status) |->
        IF t = 1 THEN 0
        ELSE Abs(cluster_status[t] - cluster_status[t - 1])])
cycle_cnt(cluster_status) ==
    arr([t \in 1..Len(cluster_status) |->
        IF t = 1 THEN 0
        ELSE IF cluster_status[t] - cluster_status[t - 1] < 0
             THEN -1 * (cluster_status[t] - cluster_status[t - 1])
             ELSE 0])

\* stack_off_deg_per_hr = onoff_deg_rate * cycle_cnt
calc_onoff_degradation(off_cycles) ==
    arr([t \in 1..Len(off_cycles) |-> onoff_deg_rate * off_cycles[t]])

\* number of weekly windows: len(t_calc) - 1
n_windows(n) == (n + dt_fatigue_calc_hrs - 1) \div dt_fatigue_calc_hrs

\* first and last index (1-based) of window i = 0, 1, ...
win_lo(i) == dt_fatigue_calc_hrs * i + 1
win_hi(i, n) == Min2(dt_fatigue_calc_hrs * (i + 1), n)

\* np.nonzero(s[lo-1:hi]): the positions, counted from the start of the
\* slice (0-based in the source, 1-based here), of its nonzero entries
nonzero(s, lo, hi) ==
    positions(arr([j \in 1..(hi - lo + 1) |-> s[lo + j - 1] # 0]))

\* voltage_signal_temp = voltage_signal[np.nonzero(voltage_signal[a:b])]: the
\* positions found in the slice index the whole signal
voltage_signal_temp(voltage_signal, i) ==
    take(voltage_signal,
         nonzero(voltage_signal, win_lo(i), win_hi(i, Len(voltage_signal))))

\* rf_track * rate_fatigue, rf_track in 10^-6 V
fatigue_volts(rf_track) ==
    DivZ(MulDiv(rf_track, rate_fatigue, 100000000), 10000)

\* w = <<raised, totals of the later windows>> with the total v put in front
fatigue_prepend(v, w) == <<w[1], <<v>> \o w[2]>>

\* the loop over the windows from window i on, rf_track the total so far:
\* <<raised, rf_track after each window>>; c is the count of window i
RECURSIVE fatigue_windows(_, _, _)
RECURSIVE fatigue_window(_, _, _, _)
fatigue_window(voltage_signal, i, rf_track, c) ==
    IF c.raises THEN <<TRUE, <<>>>>
    ELSE fatigue_prepend(rf_track + c.rf_sum,
            fatigue_windows(voltage_signal, i + 1, rf_track + c.rf_sum))
fatigue_windows(voltage_signal, i, rf_track) ==
    IF i >= n_windows(Len(voltage_signal)) THEN <<FALSE, <<>>>>
    ELSE fatigue_window(voltage_signal, i, rf_track,
                        count_cycles(voltage_signal_temp(voltage_signal, i)))

\* V_fatigue_ts[t_calc[i]:t_calc[i+1]] = rf_track*rate_fatigue from the
\* outcome w of the windows
V_fatigue_ts(n, w) ==
    IF w[1] THEN [raises |-> TRUE, V_fatigue_ts |-> <<>>]
    ELSE [raises |-> FALSE,
          V_fatigue_ts |->
             arr([t \in 1..n |->
                fatigue_volts(w[2][((t - 1) \div dt_fatigue_calc_hrs) + 1])])]

\* approx_fatigue_degradation: the whole-series count first (line 337), then
\* the windows; V_fatigue_ts is the running total of its window
approx_fatigue_degradation(voltage_signal) ==
    IF count_cycles(voltage_signal).raises
    THEN [raises |-> TRUE, V_fatigue_ts |-> <<>>]
    ELSE V_fatigue_ts(Len(voltage_signal),
                      fatigue_windows(voltage_signal, 0, 0))

\* deg_signal = np.cumsum(V_deg_uptime) + np.cumsum(V_deg_onoff) + V_fatigue
deg_signal_of_without_fatigue(cum_uptime, cum_onoff, fat) ==
    [raises |-> fat.raises,
     Uptime |-> cum_uptime,
     On_off |-> cum_onoff,
     Fatigue |-> fat.V_fatigue_ts,
     deg_signal |->
        IF fat.raises THEN <<>>
        ELSE arr([t \in 1..Len(cum_uptime) |-> cum_uptime[t] + cum_onoff[t]])]
deg_signal_of(cum_uptime, cum_onoff, fat) ==
    [raises |-> fat.raises,
     Uptime |-> cum_uptime,
     On_off |-> cum_onoff,
     Fatigue |-> fat.V_fatigue_ts,
     deg_signal |->
        IF fat.raises THEN <<>>
        ELSE arr([t \in 1..Len(cum_uptime) |->
                    cum_uptime[t] + cum_onoff[t] + fat.V_fatigue_ts[t]])]

\* V_signal = voltage_signal + np.cumsum(V_deg_uptime) + np.cumsum(V_deg_onoff)
\* and the fatigue it gives
degradation_with_fatigue(voltage_signal, cum_uptime, cum_onoff, fatigue_on) ==
    deg_signal_of(cum_uptime, cum_onoff,
        IF fatigue_on
        THEN approx_fatigue_degradation(
                arr([t \in 1..Len(voltage_signal) |->
                       voltage_signal[t] + cum_uptime[t] + cum_onoff[t]]))
        ELSE [raises |-> FALSE, V_fatigue_ts |-> zeros(Len(voltage_signal))])

\* the three mechanisms on voltage_signal = V_init * cluster_status
degradation_of(voltage_signal, cluster_status, uptime_on, onoff_on, fatigue_on) ==
    degradation_with_fatigue(
        voltage_signal,
        cumsum(IF uptime_on
               THEN calc_uptime_degradation(voltage_signal, cluster_status)
               ELSE zeros(Len(voltage_signal))),
        cumsum(IF onoff_on
               THEN calc_onoff_degradation(cycle_cnt(cluster_status))
               ELSE zeros(Len(voltage_signal))),
        fatigue_on)

\* full_degradation(V_init): the three mechanisms and their sum
full_degradation(V_init, cluster_status, uptime_on, onoff_on, fatigue_on) ==
    degradation_of(arr([t \in 1..Len(V_init) |-> V_init[t] * cluster_status[t]]),
                   cluster_status, uptime_on, onoff_on, fatigue_on)

(***************************************************************************)
(* Equivalent current under degradation.                                   *)
(***************************************************************************)

\* I * V * N_cells / 1000 [kW]
stack_power(I, V) == MulDiv(MulDiv(I, V, 100000000), N_cells, MA_PER_A)

\* I_equiv = np.where(I_equiv > 0, I_equiv, 0); NaN > 0 is False
positive_or_zero_unclamped(I) == I
positive_or_zero(I) == IF I # NaN /\ I > 0 THEN I ELSE 0

\* the current at P_equiv and the values stored with it
equiv_current(P_equiv, P_consumed_kW, coeff) ==
    [I_equiv |-> positive_or_zero(calc_current(P_equiv, coeff)),
     P_equiv |-> P_equiv,
     P_consumed_kW_init |-> P_consumed_kW]

\* power_diff_error_kW = P_consumed_kW - power_in_kW and
\* P_equiv = power_in_kW - power_diff_error_kW
equiv_from_consumed_added(power_in_kW, P_consumed_kW, coeff) ==
    equiv_current(power_in_kW + (P_consumed_kW - power_in_kW), P_consumed_kW,
                  coeff)
equiv_from_consumed(power_in_kW, P_consumed_kW, coeff) ==
    equiv_current(power_in_kW - (P_consumed_kW - power_in_kW), P_consumed_kW,
                  coeff)

\* one timestep of find_equivalent_input_power_4_deg: P_consumed_kW is
\* I_in*(V_init + V_deg)*N_cells/1000, not below power_in_kW, times the status
equiv_step_signed_error(power_in_kW, V_init, V_deg, status, coeff) ==
    equiv_from_consumed(
        power_in_kW,
        stack_power(calc_current(power_in_kW, coeff), V_init + V_deg) * status,
        coeff)
equiv_step(power_in_kW, V_init, V_deg, status, coeff) ==
    equiv_from_consumed(
        power_in_kW,
        Max2(stack_power(calc_current(power_in_kW, coeff), V_init + V_deg),
             power_in_kW) * status,
        coeff)

find_equivalent_input_power_4_deg(power_in_kW, V_init, V_deg, cluster_status, coeff) ==
    arr([t \in 1..Len(power_in_kW) |->
        equiv_step(power_in_kW[t], V_init[t], V_deg[t], cluster_status[t], coeff)])

(***************************************************************************)
(* Production.                                                             *)
(***************************************************************************)

\* ((j^2) / (f_1 + j^2)) * f_2 with f_1 = 250, f_2 = 0.996; in parts per
\* million
faradaic_of(j2) == MulDiv(j2, 996000, 250 + j2)

\* f_2 = 0.996, in thousandths
f_2 == 996
\* j^2 / (f_1 + j^2) as an exact fraction <<numerator, denominator>>, j =
\* I_cell/area and f_1 = 250: I_cell^2 / (250*area^2 + I_cell^2) with I_cell
\* in mA (up to 35 A within 32 bits), and for a whole number of amperes
\* 10*I^2 / (9216 + 10*I^2) with I in A; n_F is f_2 times the fraction
faradaic_fraction_offset(stack_current) ==
    [num |-> 250 + Abs(stack_current), den |-> 250 + Abs(stack_current)]
faradaic_fraction(stack_current) ==
    IF stack_current % MA_PER_A = 0
    THEN [num |-> 10 * (stack_current \div MA_PER_A)
                     * (stack_current \div MA_PER_A),
          den |-> (250 * cell_active_area * cell_active_area) \div 100000
                     + 10 * (stack_current \div MA_PER_A)
                          * (stack_current \div MA_PER_A)]
    ELSE [num |-> stack_current * stack_current,
          den |-> 250 * cell_active_area * cell_active_area
                     + stack_current * stack_current]

\* n_F = ((j^2) / (f_1 + j^2)) * f_2, j = 1000*I/area
faradaic_efficiency(stack_current) ==
    faradaic_of(MulDiv(Abs(stack_current), Abs(stack_current),
                       cell_active_area * cell_active_area))

\* n_Tot * N_cells * I / (2F) / moles_per_g_h2 * dt/1000 [kg/hr] per stack:
\* n_Tot * I[A] * 4.889003e-3 at dt = 3600, times the stacks in operation
h2_production_rate_one_stack(stack_current, n_stacks_op) ==
    MulDiv(MulDiv(stack_current, faradaic_efficiency(stack_current), 1000000),
           4889003, 1000000)
h2_production_rate(stack_current, n_stacks_op) ==
    n_stacks_op * MulDiv(MulDiv(stack_current,
                                faradaic_efficiency(stack_current), 1000000),
                         4889003, 1000000)

\* A float that is a quotient of products is kept exactly, as the factors of
\* its numerator and of its denominator: a factor 0 in the denominator alone
\* makes it an infinity, one in both makes it NaN.

\* a / b for a number a and a quotient b: a * den(b) / num(b)
float_over(a, b) == [num |-> <<a>> \o b.den, den |-> b.num]
\* a * b for two quotients
float_times(a, b) == [num |-> a.num \o b.num, den |-> a.den \o b.den]

\* t_eod = (d_eol/d_sim) * (t_sim_sec/3600) with d_sim = deg_signal[-1]
t_eod_first_value(deg_signal) ==
    [num |-> <<d_eol, Len(deg_signal) * dt>>,
     den |-> <<deg_signal[1], 3600>>]
t_eod(deg_signal) ==
    [num |-> <<d_eol, Len(deg_signal) * dt>>,
     den |-> <<deg_signal[Len(deg_signal)], 3600>>]

\* calc_stack_replacement_info: the time between replacements it stores and
\* the number of lifetime cluster replacements it returns,
\* plant_life_years*8760 / t_eod
calc_stack_replacement_info(deg_signal, plant_life) ==
    [time_between_replacements |-> t_eod(deg_signal),
     num_clusterrep |-> float_over(plant_life * 8760, t_eod(deg_signal))]

\* system_efficiency: e_h2 * h2 / P_sys with e_h2 = 39.41, in 10^-4; a float
\* division by zero gives NaN or an infinity
system_efficiency_lhv(P_sys, h2) ==
    IF P_sys = 0 THEN (IF h2 = 0 THEN NaN ELSE IF h2 > 0 THEN Inf ELSE NegInf)
    ELSE Sgn(P_sys) * MulDiv(h2, 3330, 10 * Abs(P_sys))
system_efficiency(P_sys, h2) ==
    IF P_sys = 0 THEN (IF h2 = 0 THEN NaN ELSE IF h2 > 0 THEN Inf ELSE NegInf)
    ELSE Sgn(P_sys) * MulDiv(h2, 3941, 10 * Abs(P_sys))

\* a power [kW] over a production [kg/hr], in 10^-2 kWh/kg: a float division
\* by zero gives NaN or an infinity
kwh_per_kg(P_kw, h2) ==
    IF h2 = 0 THEN (IF P_kw = 0 THEN NaN ELSE IF P_kw > 0 THEN Inf ELSE NegInf)
    ELSE Sgn(P_kw) * Sgn(h2) * MulDiv(Abs(P_kw), 100000, Abs(h2))

(***************************************************************************)
(* The engine.                                                             *)
(***************************************************************************)
VARIABLES
    max_stacks,                  \* self.max_stacks = cluster_size_mw
    plant_life_years,            \* self.plant_life_years = plant_life
    curve_coeff,                 \* self.curve_coeff
    include_deg_penalty,         \* self.include_deg_penalty
    use_onoff_deg,               \* self.use_onoff_deg
    use_uptime_deg,              \* self.use_uptime_deg
    use_fatigue_deg,             \* self.use_fatigue_deg
    cluster_status,              \* self.cluster_status
    n_stacks_op,                 \* self.n_stacks_op
    off_cycle_cnt,               \* self.off_cycle_cnt
    cumulative_Vdeg_per_hr_sys,  \* self.cumulative_Vdeg_per_hr_sys
    time_between_replacements,   \* self.time_between_replacements
    output_dict,                 \* self.output_dict
    input_external_power_kw,     \* the argument of the latest run()
    h2_results,                  \* what the latest run() returned
    h2_results_aggregates,
    raised,                      \* the exception the latest run() raised
    run_flags,                   \* the use_* attributes at the latest run()
    kept,                        \* an earlier call and its outcome, kept by the caller
    call,                        \* a method called on its own, with its argument
    result                       \* what that call returned or raised, and its locals

vars == <<max_stacks, plant_life_years, curve_coeff, include_deg_penalty, use_onoff_deg,
          use_uptime_deg, use_fatigue_deg, cluster_status, n_stacks_op,
          off_cycle_cnt, cumulative_Vdeg_per_hr_sys,
          time_between_replacements, output_dict, input_external_power_kw,
          h2_results, h2_results_aggregates, raised, run_flags, kept,
          call, result>>

flags == <<use_onoff_deg, use_uptime_deg, use_fatigue_deg>>

\* an attribute not assigned yet; nothing returned
Unset == <<>>

(* bounds *)
MaxStacks == 2
MaxLen == 3
MaxLenReuse == 2

\* input powers [W] for a cluster: negative, zero, 0.5 kW, 5% and 100% of one
\* stack, and 500 kW above the capacity of the cluster
PowerLevels(stacks) ==
    {-50000, 0, 500, 50000, 1000000, cluster_cap(stacks) + 500000}

\* two input powers in turn, 48 hourly steps
Alternating(first, second) ==
    arr([t \in 1..48 |-> IF t % 2 = 1 THEN first ELSE second])
\* 1000 kW and 50 kW in turn, in either order
AlternatingSeries == {Alternating(1000000, 50000), Alternating(50000, 1000000)}

\* the series of length n over S
RECURSIVE SeqsOfLen(_, _)
SeqsOfLen(S, n) ==
    IF n = 0 THEN {<<>>}
    ELSE {Append(q, e) : q \in SeqsOfLen(S, n - 1), e \in S}

InputSeries(stacks) ==
    UNION {SeqsOfLen(PowerLevels(stacks), n) : n \in 1..MaxLen}
        \cup AlternatingSeries

\* input powers and series for an engine that is run again and again
ReuseLevels == {0, 1000000}
ReuseSeries == SeqsOfLen(ReuseLevels, MaxLenReuse)

\* __init__; the three use_* attributes are True after construction
constructed(cluster_size_mw, plant_life, include_degradation_penalty) ==
    /\ max_stacks = cluster_size_mw
    /\ plant_life_years = plant_life
    /\ curve_coeff = iv_curve
    /\ include_deg_penalty = include_degradation_penalty
    /\ use_onoff_deg = TRUE
    /\ use_uptime_deg = TRUE
    /\ use_fatigue_deg = TRUE
    /\ cluster_status = Unset
    /\ n_stacks_op = Unset
    /\ off_cycle_cnt = Unset
    /\ cumulative_Vdeg_per_hr_sys = Unset
    /\ time_between_replacements = Unset
    /\ output_dict = [Curtailed_Power |-> Unset, Breakdown |-> Unset,
                      Equivalent |-> Unset]
    /\ input_external_power_kw = Unset
    /\ h2_results = Unset
    /\ h2_results_aggregates = Unset
    /\ raised = "none"
    /\ run_flags = Unset
    /\ kept = Unset
    /\ call = Unset
    /\ result = Unset

\* the plant life [years] the analysis script constructs the engines with
useful_life == 30

\* the engines of a cluster of 1..MaxStacks stacks
Init ==
    \E cluster_size_mw \in 1..MaxStacks, include_degradation_penalty \in BOOLEAN :
        constructed(cluster_size_mw, useful_life, include_degradation_penalty)

\* cluster_size_mw is stored as given (line 81): nothing in __init__ reads it,
\* so a stack count of zero or below constructs an engine as well
StackCounts == -1..MaxStacks
InitUnchecked ==
    \E cluster_size_mw \in StackCounts, include_degradation_penalty \in BOOLEAN :
        constructed(cluster_size_mw, useful_life, include_degradation_penalty)

\* the caller assigns the mechanism attributes of the engine
SetFlags(onoff, uptime, fatigue) ==
    /\ use_onoff_deg' = onoff
    /\ use_uptime_deg' = uptime
    /\ use_fatigue_deg' = fatigue
    /\ UNCHANGED <<max_stacks, plant_life_years, curve_coeff, include_deg_penalty, cluster_status,
                   n_stacks_op, off_cycle_cnt, cumulative_Vdeg_per_hr_sys,
                   time_between_replacements, output_dict,
                   input_external_power_kw, h2_results, h2_results_aggregates,
                   raised, run_flags, kept, call, result>>

\* run raises exc: nothing is returned
run_raises(exc) ==
    /\ raised' = exc
    /\ h2_results' = Unset
    /\ h2_results_aggregates' = Unset

\* lines 148-199 of run: the results from the corrected stack current
run_returns(x, input_power_kw, power_per_stack_kw, V_init, deg_signal, stack_current) ==
    \E V_cell \in {arr([t \in 1..Len(x) |->
                       cell_design(stack_current[t]) + deg_signal[t]])} :
    \E h2_kg_hr_system_init \in
          {arr([t \in 1..Len(x) |->
              h2_production_rate(stack_current[t], n_stacks_op'[t])])} :
    \E h2_kg_hr_system \in
          {arr([t \in 1..Len(x) |->
              h2_multiplier(cluster_cycling(cluster_status')[t],
                            h2_kg_hr_system_init[t])])} :
        IF off_cycle_cnt' = Unset
        THEN run_raises("AttributeError")
        ELSE /\ raised' = "none"
             /\ h2_results' =
                 [Input_Power |-> x,
                  hydrogen_production_no_start_up_time |-> h2_kg_hr_system_init,
                  hydrogen_hourly_production |-> h2_kg_hr_system,
                  electrolyzer_total_efficiency_perc |->
                      arr([t \in 1..Len(x) |->
                            system_efficiency(input_power_kw[t],
                                              h2_kg_hr_system_init[t])]),
                  kwh_per_kgH2 |->
                      arr([t \in 1..Len(x) |->
                            kwh_per_kg(input_power_kw[t], h2_kg_hr_system[t])]),
                  Power_Consumed |->
                      arr([t \in 1..Len(x) |->
                            n_stacks_op'[t]
                               * stack_power(stack_current[t], V_cell[t])]),
                  Stacks_on |-> n_stacks_op',
                  Power_Per_Stack |-> power_per_stack_kw,
                  Stack_Current |-> stack_current,
                  V_cell_No_Deg |-> V_init,
                  V_cell_With_Deg |-> V_cell,
                  System_Degradation |-> deg_signal]
             /\ h2_results_aggregates' =
                 [Avg_hrs_until_Replacement |-> time_between_replacements',
                  Number_of_Lifetime_Cluster_Replacements |->
                      calc_stack_replacement_info(deg_signal, plant_life_years)
                         .num_clusterrep,
                  Total_H2_Production |-> sum(h2_kg_hr_system),
                  Total_Input_Power |-> sum(x),
                  Total_kWh_per_kg |-> kwh_per_kg(sum(x), sum(h2_kg_hr_system)),
                  Total_Uptime |-> sum(cluster_status') * dt,
                  Total_Off_Cycles |-> sum(off_cycle_cnt'),
                  Final_Degradation |-> deg_signal[Len(x)],
                  IV_curve_coeff |-> curve_coeff]

\* lines 137-143 of run, include_deg_penalty being True: full_degradation
\* assigns off_cycle_cnt when use_onoff_deg, and the degradation signal, its
\* breakdown and the replacement time unless the cycle count raises
run_degraded(x, input_power_kw, power_per_stack_kw, V_init) ==
    \E fd \in {full_degradation(V_init, cluster_status', use_uptime_deg,
                                use_onoff_deg, use_fatigue_deg)} :
        /\ off_cycle_cnt' = IF use_onoff_deg THEN cycle_cnt(cluster_status')
                            ELSE off_cycle_cnt
        /\ IF fd.raises
           THEN /\ run_raises("ValueError")
                /\ output_dict' =
                      [output_dict EXCEPT
                          !.Curtailed_Power = power_curtailed_kw(x, max_stacks)]
                /\ UNCHANGED <<cumulative_Vdeg_per_hr_sys,
                               time_between_replacements>>
           ELSE \E eq \in {find_equivalent_input_power_4_deg(
                              power_per_stack_kw, V_init, fd.deg_signal,
                              cluster_status', curve_coeff)} :
                /\ cumulative_Vdeg_per_hr_sys' = fd.deg_signal
                /\ time_between_replacements' =
                      calc_stack_replacement_info(fd.deg_signal, plant_life_years)
                         .time_between_replacements
                /\ output_dict' =
                      [Curtailed_Power |-> power_curtailed_kw(x, max_stacks),
                       Breakdown |-> [Uptime |-> fd.Uptime,
                                      On_off |-> fd.On_off,
                                      Fatigue |-> fd.Fatigue],
                       Equivalent |-> eq]
                /\ run_returns(x, input_power_kw, power_per_stack_kw, V_init,
                               fd.deg_signal,
                               arr([t \in 1..Len(x) |-> eq[t].I_equiv]))

\* the attributes run() does not assign; curve_coeff is only read (lines 133,
\* 188, 209, 232, 401)
run_refits ==
    /\ curve_coeff' = <<0, 0, 0, 0, 0, 1>>
    /\ UNCHANGED <<max_stacks, plant_life_years, include_deg_penalty, use_onoff_deg,
                   use_uptime_deg, use_fatigue_deg>>
run_keeps ==
    UNCHANGED <<max_stacks, plant_life_years, curve_coeff, include_deg_penalty, use_onoff_deg,
                use_uptime_deg, use_fatigue_deg>>

\* run(input_external_power_kw): the attributes it assigns, what it returns
\* and what it raises.  NameError: V_init is read unassigned at line 145;
\* ValueError: the cycle count fails; AttributeError: self.off_cycle_cnt is
\* read at line 186 and was never assigned
run(x) ==
    \E input_power_kw \in {external_power_supply(x, max_stacks)} :
        /\ input_external_power_kw' = x
        /\ run_flags' = flags
        /\ cluster_status' = system_design(input_power_kw, max_stacks)
        /\ n_stacks_op' =
              arr([t \in 1..Len(x) |-> max_stacks * cluster_status'[t]])
        /\ \E power_per_stack_kw \in
                 {power_per_stack(input_power_kw, n_stacks_op')} :
              IF include_deg_penalty
              THEN run_degraded(x, input_power_kw, power_per_stack_kw,
                      arr([t \in 1..Len(x) |->
                             cell_design(calc_current(power_per_stack_kw[t],
                                                      curve_coeff))]))
              ELSE /\ run_raises("NameError")
                   /\ output_dict' =
                         [output_dict EXCEPT
                             !.Curtailed_Power =
                                 power_curtailed_kw(x, max_stacks)]
                   /\ UNCHANGED <<off_cycle_cnt, cumulative_Vdeg_per_hr_sys,
                                  time_between_replacements>>
        /\ run_keeps
        /\ UNCHANGED <<kept, call, result>>

\* a freshly constructed engine: the caller sets the mechanism attributes,
\* then runs it once
ConfigureFresh ==
    /\ input_external_power_kw = Unset
    /\ \E onoff \in BOOLEAN, uptime \in BOOLEAN, fatigue \in BOOLEAN :
          SetFlags(onoff, uptime, fatigue)

RunFresh ==
    /\ input_external_power_kw = Unset
    /\ \E x \in InputSeries(max_stacks) : run(x)

Next == ConfigureFresh \/ RunFresh

Spec == Init /\ [][Next]_vars

\* construction with any stack count, then the same calls
SpecConstruct == InitUnchecked /\ [][Next]_vars

\* fresh engines that include the degradation penalty: every run reaches
\* full_degradation
InitDegrading == Init /\ include_deg_penalty
SpecDegrading == InitDegrading /\ [][Next]_vars

\* one engine, run again and again, use_onoff_deg set between the runs
InitReuse == Init /\ max_stacks = 1 /\ include_deg_penalty

\* on/off degradation is switched on or off between two runs
Configure ==
    \E onoff \in BOOLEAN : SetFlags(onoff, use_uptime_deg, use_fatigue_deg)

RunAgain == \E x \in ReuseSeries : run(x)

\* the caller keeps the latest call and what it returned or raised
Keep ==
    /\ kept = Unset
    /\ input_external_power_kw # Unset
    /\ kept' = [x |-> input_external_power_kw, flags |-> run_flags,
                raised |-> raised, h2_results |-> h2_results,
                h2_results_aggregates |-> h2_results_aggregates]
    /\ UNCHANGED <<max_stacks, plant_life_years, curve_coeff, include_deg_penalty, use_onoff_deg,
                   use_uptime_deg, use_fatigue_deg, cluster_status,
                   n_stacks_op, off_cycle_cnt, cumulative_Vdeg_per_hr_sys,
                   time_between_replacements, output_dict,
                   input_external_power_kw, h2_results, h2_results_aggregates,
                   raised, run_flags, call, result>>

NextReuse == Configure \/ RunAgain \/ Keep

SpecReuse == InitReuse /\ [][NextReuse]_vars

(***************************************************************************)
(* Methods called on their own.                                            *)
(***************************************************************************)

(* bounds *)
MaxSmallCurrent == 50
MaxCurrentSteps == 50
MaxWindows == 3
TailHours == 3

\* stack currents [mA]: around zero in steps of 1 mA, and up to the maximum
\* cell current in steps of 80 A
StackCurrents ==
    (-2..MaxSmallCurrent) \cup {80 * MA_PER_A * k : k \in 1..MaxCurrentSteps}

\* faradaic_efficiency(stack_current)
call_faradaic_efficiency ==
    /\ call = Unset
    /\ \E stack_current \in StackCurrents :
          /\ call' = [method |-> "faradaic_efficiency",
                      stack_current |-> stack_current]
          /\ result' = [n_F |-> faradaic_fraction(stack_current),
                        n_F_ppm |-> faradaic_efficiency(stack_current)]
    /\ UNCHANGED <<max_stacks, plant_life_years, curve_coeff, include_deg_penalty, use_onoff_deg,
                   use_uptime_deg, use_fatigue_deg, cluster_status,
                   n_stacks_op, off_cycle_cnt, cumulative_Vdeg_per_hr_sys,
                   time_between_replacements, output_dict,
                   input_external_power_kw, h2_results, h2_results_aggregates,
                   raised, run_flags, kept>>

\* cell voltages [10^-8 V] of a cluster that is on
VoltageLevels == {190000000, 200000000, 210000000}
\* what a week of the voltage signal repeats: two voltages in turn, with or
\* without an hour off (voltage 0) between them
VoltagePairs == {ab \in VoltageLevels \X VoltageLevels : ab[1] # ab[2]}
WeekPatterns ==
    {<<ab[1], ab[2]>> : ab \in VoltagePairs}
    \cup {<<ab[1], 0, ab[2]>> : ab \in VoltagePairs}
\* a signal of n hours: the weeks repeat p and q in turn
VoltageSignal(n, p, q) ==
    arr([t \in 1..n |->
        IF ((t - 1) \div dt_fatigue_calc_hrs) % 2 = 0
        THEN p[((t - 1) % Len(p)) + 1]
        ELSE q[((t - 1) % Len(q)) + 1]])
\* a few hours more than 0, 1, 2, ... full weeks
SignalLengths ==
    {dt_fatigue_calc_hrs * w + TailHours : w \in 0..(MaxWindows - 1)}
VoltageSignals ==
    {VoltageSignal(n, p, q) :
        n \in SignalLengths, p \in WeekPatterns, q \in WeekPatterns}

\* the samples the loop of approx_fatigue_degradation hands to the cycle
\* counter (line 344), window by window
voltage_signal_temps(voltage_signal) ==
    arr([k \in 1..n_windows(Len(voltage_signal)) |->
        voltage_signal_temp(voltage_signal, k - 1)])

\* approx_fatigue_degradation(voltage_signal)
call_approx_fatigue_degradation ==
    /\ call = Unset
    /\ \E voltage_signal \in VoltageSignals :
       \E fat \in {approx_fatigue_degradation(voltage_signal)} :
          /\ call' = [method |-> "approx_fatigue_degradation",
                      voltage_signal |-> voltage_signal]
          /\ result' = [raises |-> fat.raises,
                        V_fatigue_ts |-> fat.V_fatigue_ts,
                        voltage_signal_temp |->
                            IF fat.raises THEN <<>>
                            ELSE voltage_signal_temps(voltage_signal)]
    /\ UNCHANGED <<max_stacks, plant_life_years, curve_coeff, include_deg_penalty, use_onoff_deg,
                   use_uptime_deg, use_fatigue_deg, cluster_status,
                   n_stacks_op, off_cycle_cnt, cumulative_Vdeg_per_hr_sys,
                   time_between_replacements, output_dict,
                   input_external_power_kw, h2_results, h2_results_aggregates,
                   raised, run_flags, kept>>

\* input powers [W] of a one-stack cluster: off, 0.5 kW, and 1%, 25% and 100%
\* of the stack rating
EquivPowerLevels == {0, 500, 10000, 250000, 1000000}
\* degradation [10^-8 V]: none, one off-cycle, the end-of-life value, and four
\* times the end-of-life value (some 19500 off-cycles)
DegradationLevels == {0, onoff_deg_rate, d_eol, 4 * d_eol}
\* degradation signals of two timesteps, non-decreasing
DegradationSignals ==
    {<<d[1], d[2]>> : d \in {e \in DegradationLevels \X DegradationLevels :
                                e[1] <= e[2]}}

\* find_equivalent_input_power_4_deg(power_in_kW, V_init, V_deg) the way run()
\* calls it (lines 122-141), on the status, power per stack and BOL voltage of
\* an input series, for a degradation signal of any history
call_find_equivalent_input_power_4_deg ==
    /\ call = Unset
    /\ \E x \in EquivPowerLevels \X EquivPowerLevels, V_deg \in DegradationSignals :
       \E input_power_kw \in {external_power_supply(x, max_stacks)} :
          /\ cluster_status' = system_design(input_power_kw, max_stacks)
          /\ n_stacks_op' =
                arr([t \in 1..Len(x) |-> max_stacks * cluster_status'[t]])
          /\ \E power_in_kW \in {power_per_stack(input_power_kw, n_stacks_op')} :
             \E V_init \in {arr([t \in 1..Len(x) |->
                                cell_design(calc_current(power_in_kW[t],
                                                         curve_coeff))])} :
             \E eq \in {find_equivalent_input_power_4_deg(
                           power_in_kW, V_init, V_deg, cluster_status',
                           curve_coeff)} :
                /\ call' = [method |-> "find_equivalent_input_power_4_deg",
                            power_in_kW |-> power_in_kW,
                            V_init |-> V_init,
                            V_deg |-> V_deg]
                /\ output_dict' = [output_dict EXCEPT !.Equivalent = eq]
                /\ result' = [I_equiv |->
                                arr([t \in 1..Len(x) |-> eq[t].I_equiv])]
    /\ UNCHANGED <<max_stacks, plant_life_years, curve_coeff, include_deg_penalty, use_onoff_deg,
                   use_uptime_deg, use_fatigue_deg, off_cycle_cnt,
                   cumulative_Vdeg_per_hr_sys, time_between_replacements,
                   input_external_power_kw, h2_results, h2_results_aggregates,
                   raised, run_flags, kept>>

\* degradation signals of one and of two timesteps
ReplacementSignals ==
    {<<d>> : d \in DegradationLevels} \cup DegradationSignals

\* calc_stack_replacement_info(deg_signal)
call_calc_stack_replacement_info ==
    /\ call = Unset
    /\ \E deg_signal \in ReplacementSignals :
       \E info \in {calc_stack_replacement_info(deg_signal, plant_life_years)} :
          /\ call' = [method |-> "calc_stack_replacement_info",
                      deg_signal |-> deg_signal]
          /\ time_between_replacements' = info.time_between_replacements
          /\ result' = [num_clusterrep |-> info.num_clusterrep]
    /\ UNCHANGED <<max_stacks, plant_life_years, curve_coeff,
                   include_deg_penalty, use_onoff_deg, use_uptime_deg,
                   use_fatigue_deg, cluster_status, n_stacks_op, off_cycle_cnt,
                   cumulative_Vdeg_per_hr_sys, output_dict,
                   input_external_power_kw, h2_results, h2_results_aggregates,
                   raised, run_flags, kept>>

NextMethods ==
    \/ call_faradaic_efficiency
    \/ call_approx_fatigue_degradation
    \/ call_find_equivalent_input_power_4_deg
    \/ call_calc_stack_replacement_info

\* plant lives [years] of the engines whose methods are called
PlantLives == {1, useful_life}
\* a one-stack engine with the degradation penalty, of either plant life
InitMethods ==
    \E plant_life \in PlantLives : constructed(1, plant_life, TRUE)

\* an engine one method of which is called on its own
SpecMethods == InitMethods /\ [][NextMethods]_vars

(***************************************************************************)
(* Properties.                                                             *)
(***************************************************************************)

\* run() was called and returned its results
Returned == input_external_power_kw # Unset /\ raised = "none"
\* the timesteps of the latest input series
Steps == 1..Len(input_external_power_kw)
\* the latest run computed the degradation signal
Degraded ==
    /\ input_external_power_kw # Unset
    /\ include_deg_penalty
    /\ raised \in {"none", "AttributeError"}
\* the power that reaches the cluster at the latest run
supplied == external_power_supply(input_external_power_kw, max_stacks)

\* C1: the cumulative degradation voltage never decreases from one timestep
\* to the next, whichever mechanisms are enabled
C1_DegradationNonDecreasing ==
    Degraded =>
        /\ \A t \in 2..Len(cumulative_Vdeg_per_hr_sys) :
              cumulative_Vdeg_per_hr_sys[t] >= cumulative_Vdeg_per_hr_sys[t - 1]
        /\ Returned =>
              \A t \in 2..Len(h2_results.System_Degradation) :
                 h2_results.System_Degradation[t]
                     >= h2_results.System_Degradation[t - 1]

\* a run in which the three mechanisms all contributed and the signal grew
C1_Witness ==
    /\ Returned
    /\ Len(cumulative_Vdeg_per_hr_sys) = 3
    /\ output_dict.Breakdown.Uptime[3] > 0
    /\ output_dict.Breakdown.On_off[3] > 0
    /\ output_dict.Breakdown.Fatigue[3] > 0
    /\ cumulative_Vdeg_per_hr_sys[3] > cumulative_Vdeg_per_hr_sys[1]

\* C2: the cluster status is 0 or 1 at every timestep and the number of
\* operating stacks is 0 or max_stacks
C2_AllOrNothing ==
    cluster_status # Unset =>
        /\ Len(cluster_status) = Len(input_external_power_kw)
        /\ Len(n_stacks_op) = Len(input_external_power_kw)
        /\ \A t \in Steps :
              /\ cluster_status[t] \in {0, 1}
              /\ n_stacks_op[t] \in {0, max_stacks}
              /\ n_stacks_op[t] = max_stacks * cluster_status[t]
        /\ Returned =>
              \A t \in Steps : h2_results.Stacks_on[t] \in {0, max_stacks}

\* a two-stack cluster that was off at one timestep and on, above the rating
\* of one stack, at another
C2_Witness ==
    /\ Returned
    /\ max_stacks = 2
    /\ \E t \in Steps : n_stacks_op[t] = 0
    /\ \E t \in Steps :
          /\ n_stacks_op[t] = 2
          /\ input_external_power_kw[t] > stack_rating_kW * W_PER_KW

\* C3 (as the specification states it): the cluster is on exactly when the
\* clamped input power is at least 10% of max_stacks * stack_rating_kW
C3_OnFromTenPercent ==
    cluster_status # Unset =>
        \A t \in Steps :
            cluster_status[t] = 1 <=> 10 * supplied[t] >= cluster_cap(max_stacks)

\* C4 (as the specification states it): the power that reaches the cluster
\* lies between 0 and max_stacks * stack_rating_kW
C4_SuppliedWithinZeroAndCap ==
    input_external_power_kw # Unset =>
        \A t \in Steps :
            /\ 0 <= supplied[t]
            /\ supplied[t] <= cluster_cap(max_stacks)
            /\ Returned /\ n_stacks_op[t] > 0 =>
                  0 <= h2_results.Power_Per_Stack[t]

\* C5: the curtailed power is max(input - capacity, 0) and the clamped power
\* is min(input, capacity), at every timestep on its own
C5_CurtailmentPerTimestep ==
    input_external_power_kw # Unset =>
        /\ Len(output_dict.Curtailed_Power) = Len(input_external_power_kw)
        /\ \A t \in Steps :
              /\ output_dict.Curtailed_Power[t]
                    = Max2(input_external_power_kw[t] - cluster_cap(max_stacks), 0)
              /\ supplied[t]
                    = Min2(input_external_power_kw[t], cluster_cap(max_stacks))
              /\ Returned /\ n_stacks_op[t] > 0 =>
                    h2_results.Power_Per_Stack[t]
                       = Min2(input_external_power_kw[t], cluster_cap(max_stacks))
                            \div max_stacks

\* a two-stack run with a timestep above the capacity, one at the rating of
\* one stack, below the capacity, and the curtailment of each
C5_Witness ==
    /\ Returned
    /\ max_stacks = 2
    /\ \E t \in Steps, u \in Steps :
          /\ input_external_power_kw[t] = stack_rating_kW * W_PER_KW
          /\ input_external_power_kw[t] < cluster_cap(max_stacks)
          /\ output_dict.Curtailed_Power[t] = 0
          /\ input_external_power_kw[u] > cluster_cap(max_stacks)
          /\ output_dict.Curtailed_Power[u] > 0

\* C6 (as the specification states it): two calls of run() on one engine with
\* the same configuration and the same input series return the same outputs,
\* whatever was run in between
C6_SameCallSameOutputs ==
    /\ kept # Unset
    /\ kept.x = input_external_power_kw
    /\ kept.flags = run_flags
    /\ kept.raised = "none"
    /\ raised = "none"
    => /\ kept.h2_results = h2_results
       /\ kept.h2_results_aggregates = h2_results_aggregates

\* the status series that a threshold of 10% of the capacity gives
ten_percent_status(x, stacks) ==
    arr([t \in 1..Len(x) |->
        IF 10 * Min2(x[t], cluster_cap(stacks)) >= cluster_cap(stacks)
        THEN 1 ELSE 0])

\* C7 (as the specification states it): one stack, only cycling degradation,
\* 50 kW and 1000 kW in turn for 48 steps: the cumulative degradation grows by
\* rate_cycle at each OFF transition and nowhere else, 24 times when the
\* series starts at 1000 kW, and uptime and fatigue contribute nothing
C7_AlternatingOffTransitions ==
    /\ Returned
    /\ max_stacks = 1
    /\ run_flags = <<TRUE, FALSE, FALSE>>
    /\ input_external_power_kw \in AlternatingSeries
    => LET deg == h2_results.System_Degradation
           st == ten_percent_status(input_external_power_kw, max_stacks)
       IN  /\ deg[1] = 0
           /\ \A t \in 2..48 :
                 deg[t] - deg[t - 1]
                    = IF st[t - 1] = 1 /\ st[t] = 0 THEN onoff_deg_rate ELSE 0
           /\ input_external_power_kw[1] = 1000000
                 => deg[48] = 24 * onoff_deg_rate
           /\ \A t \in 1..48 :
                 /\ output_dict.Breakdown.Uptime[t] = 0
                 /\ output_dict.Breakdown.Fatigue[t] = 0

\* constant 1000 kW on one stack, returned with a degradation that is zero at
\* every timestep
C8_Scenario ==
    /\ Returned
    /\ max_stacks = 1
    /\ \A t \in Steps : input_external_power_kw[t] = 1000000
    /\ \A t \in Steps : h2_results.System_Degradation[t] = 0

C9_BelowThresholdAllZero ==
    /\ Returned
    /\ \A t \in Steps : 10 * input_external_power_kw[t] < cluster_cap(max_stacks)
    => \A t \in Steps :
          /\ h2_results.hydrogen_hourly_production[t] = 0
          /\ output_dict.Curtailed_Power[t] = 0
          /\ h2_results.System_Degradation[t] = 0

\* the latest run passed a degradation signal that is zero at every timestep
C10_ZeroDegradation ==
    /\ Degraded
    /\ \A t \in Steps : cumulative_Vdeg_per_hr_sys[t] = 0
\* the power delivered to each stack at the latest run
delivered == power_per_stack(supplied, n_stacks_op)
\* the BOL power consumed at a delivered power, I_in * V_init * N_cells / 1000
bol_power_consumed(power_in_kW) ==
    stack_power(calc_current(power_in_kW, curve_coeff),
                cell_design(calc_current(power_in_kW, curve_coeff)))

\* C10 (as the specification states it): with a zero degradation signal the
\* equivalent current is the BOL current at every timestep where the cluster
\* is on
C10_EquivalentIsBOLCurrent ==
    C10_ZeroDegradation =>
        \A t \in Steps :
            cluster_status[t] = 1 =>
                output_dict.Equivalent[t].I_equiv
                    = calc_current(delivered[t], curve_coeff)

\* C10: with a zero degradation signal the equivalent current is the BOL
\* current at every on-timestep where the BOL power consumed does not exceed
\* the delivered power and the BOL current is not negative; where the BOL
\* power consumed exceeds the delivered power P it is the current at
\* 2*P - P_consumed, and a negative current is reported as 0
C10_EquivalentIsBOLCurrentUnlessOverconsumed ==
    C10_ZeroDegradation =>
        \A t \in Steps :
            cluster_status[t] = 1 =>
                LET P == delivered[t]
                    I_in == calc_current(P, curve_coeff)
                    P_c == bol_power_consumed(P)
                    I_eq == output_dict.Equivalent[t].I_equiv
                IN  /\ P_c <= P /\ I_in >= 0 => I_eq = I_in
                    /\ P_c <= P /\ I_in < 0 => I_eq = 0
                    /\ P_c > P =>
                          I_eq = Max2(calc_current(2 * P - P_c, curve_coeff), 0)

\* a zero-degradation run with an on-timestep that consumes less than it is
\* delivered at BOL and keeps the BOL current, and one that consumes more
C10_Witness ==
    /\ C10_ZeroDegradation
    /\ \E t \in Steps, u \in Steps :
          /\ cluster_status[t] = 1
          /\ bol_power_consumed(delivered[t]) < delivered[t]
          /\ output_dict.Equivalent[t].I_equiv > 0
          /\ output_dict.Equivalent[t].I_equiv
                = calc_current(delivered[t], curve_coeff)
          /\ cluster_status[u] = 1
          /\ bol_power_consumed(delivered[u]) > delivered[u]
          /\ output_dict.Equivalent[u].I_equiv
                < calc_current(delivered[u], curve_coeff)

\* the cluster goes from on at t - 1 to off at t
off_transition(status, t) == t > 1 /\ status[t - 1] = 1 /\ status[t] = 0
\* the cluster goes from off at t - 1 to on at t
on_transition(status, t) == t > 1 /\ status[t - 1] = 0 /\ status[t] = 1

\* C12: with on/off degradation enabled the off-cycle count is 1 at the
\* timesteps where the status goes from 1 to 0 and 0 at every other timestep,
\* and the cumulative cycling degradation at t is onoff_deg_rate times the
\* number of 1 -> 0 transitions at or before t
C12_OffCyclesAreOffTransitions ==
    /\ input_external_power_kw # Unset
    /\ include_deg_penalty
    /\ run_flags[1]
    => /\ Len(off_cycle_cnt) = Len(input_external_power_kw)
       /\ \A t \in Steps :
             off_cycle_cnt[t]
                = IF off_transition(cluster_status, t) THEN 1 ELSE 0
       /\ Returned =>
             \A t \in Steps :
                output_dict.Breakdown.On_off[t]
                   = onoff_deg_rate
                       * Cardinality({u \in 1..t :
                                        off_transition(cluster_status, u)})

\* a returned run that went on, off and on again: one off-cycle, counted at
\* the second timestep and kept after the cluster is back on
C12_Witness ==
    /\ Returned
    /\ run_flags[1]
    /\ cluster_status = <<1, 0, 1>>
    /\ off_cycle_cnt = <<0, 1, 0>>
    /\ output_dict.Breakdown.On_off = <<0, onoff_deg_rate, onoff_deg_rate>>

C14_RatioFiniteWithoutProduction ==
    Returned =>
        /\ \A t \in Steps :
              h2_results.hydrogen_hourly_production[t] = 0
                 => h2_results.kwh_per_kgH2[t] \notin {NaN, Inf, NegInf}
        /\ h2_results_aggregates.Total_H2_Production = 0
              => h2_results_aggregates.Total_kWh_per_kg \notin {NaN, Inf, NegInf}

\* C15 (as the specification states it): an engine with a stack count of zero
\* or below is never there to be run
C15_NonPositiveStackCountRejected ==
    max_stacks <= 0 => input_external_power_kw = Unset

\* C16 (as the specification states it): on a freshly constructed engine with
\* the degradation penalty excluded, or with the three mechanisms switched
\* off, run() returns and the cumulative degradation is 0 at every timestep
C16_DisabledDegradationRuns ==
    /\ input_external_power_kw # Unset
    /\ \/ ~include_deg_penalty
       \/ run_flags = <<FALSE, FALSE, FALSE>>
    => /\ raised = "none"
       /\ \A t \in Steps : h2_results.System_Degradation[t] = 0

\* C19: the curve coefficients of an engine are those fitted at construction,
\* whatever calls of run() were made, and run() reports them
C19_CurveCoeffFittedOnce ==
    /\ curve_coeff = iv_curve
    /\ Returned => h2_results_aggregates.IV_curve_coeff = iv_curve
    /\ kept # Unset /\ kept.raised = "none"
          => kept.h2_results_aggregates.IV_curve_coeff = iv_curve

\* an engine that returned from two runs with different results
C19_Witness ==
    /\ kept # Unset
    /\ kept.raised = "none"
    /\ Returned
    /\ kept.h2_results # h2_results
    /\ curve_coeff = iv_curve

\* C20: the power per stack is the clamped input power divided by the number
\* of stacks in operation where the cluster is on and 0 where it is off, and
\* never exceeds stack_rating_kW
C20_PowerPerStack ==
    Returned =>
        \A t \in Steps :
            /\ cluster_status[t] = 1 =>
                  /\ n_stacks_op[t] > 0
                  /\ h2_results.Power_Per_Stack[t] * n_stacks_op[t] <= supplied[t]
                  /\ supplied[t]
                        < (h2_results.Power_Per_Stack[t] + 1) * n_stacks_op[t]
            /\ cluster_status[t] = 0 => h2_results.Power_Per_Stack[t] = 0
            /\ h2_results.Power_Per_Stack[t] <= stack_rating_kW * W_PER_KW

\* a two-stack run with a timestep off, one at 1000 kW shared by the two
\* stacks and one above the capacity, each stack at its rating
C20_Witness ==
    /\ Returned
    /\ max_stacks = 2
    /\ \E t \in Steps, u \in Steps, v \in Steps :
          /\ cluster_status[t] = 0
          /\ h2_results.Power_Per_Stack[t] = 0
          /\ input_external_power_kw[u] = 1000000
          /\ h2_results.Power_Per_Stack[u] = 500000
          /\ input_external_power_kw[v] > cluster_cap(max_stacks)
          /\ h2_results.Power_Per_Stack[v] = stack_rating_kW * W_PER_KW

\* faradaic_efficiency was called on its own
FaradaicCalled == call # Unset /\ call.method = "faradaic_efficiency"

\* C11: the Faradaic efficiency f_2 * num/den is above 0 and below 1 at every
\* positive stack current, and it is 0 at the stack current 0 and at no other
C11_FaradaicEfficiencyRange ==
    FaradaicCalled =>
        /\ result.n_F.den > 0
        /\ result.n_F.num >= 0
        /\ result.n_F.num = 0 <=> call.stack_current = 0
        /\ call.stack_current = 0 => result.n_F_ppm = 0
        /\ call.stack_current > 0 =>
              /\ result.n_F.num > 0
              /\ MulDiv(result.n_F.num, f_2, 1000) < result.n_F.den
              /\ result.n_F_ppm >= 0
              /\ result.n_F_ppm < 1000000

\* the efficiency at 4000 A, the largest of the currents: above 0.995
C11_Witness ==
    /\ FaradaicCalled
    /\ call.stack_current = 4000 * MA_PER_A
    /\ result.n_F.num > 0
    /\ result.n_F.num < result.n_F.den
    /\ result.n_F_ppm > 995000

\* approx_fatigue_degradation was called on its own and returned
FatigueReturned ==
    /\ call # Unset
    /\ call.method = "approx_fatigue_degradation"
    /\ ~result.raises

\* the nonzero entries of the voltage signal at the indices of window k, in
\* order
own_samples(voltage_signal, k) ==
    SelectSeq(SubSeq(voltage_signal, win_lo(k),
                     win_hi(k, Len(voltage_signal))),
              LAMBDA v : v # 0)

\* the cycle-weighted sum of each window, counted on its own samples
own_window_sums(voltage_signal) ==
    arr([k \in 1..n_windows(Len(voltage_signal)) |->
        count_cycles(own_samples(voltage_signal, k - 1)).rf_sum])

\* V is constant within each window, where it is rate_fatigue times the
\* running total of its window, and does not decrease
step_function_of(V, rf_tracks) ==
    \A t \in 1..Len(V) :
        /\ V[t] = fatigue_volts(rf_tracks[((t - 1) \div dt_fatigue_calc_hrs) + 1])
        /\ t > 1 => V[t] >= V[t - 1]
        /\ t > 1 /\ V[t] # V[t - 1] => (t - 1) % dt_fatigue_calc_hrs = 0

\* C17 (as the specification states it): the fatigue series is constant
\* within each window of 168 timesteps, its value in window k is rate_fatigue
\* times the running sum of the cycle-weighted sums of the windows 0..k, it
\* does not decrease and it changes only at multiples of 168
C17_StepFunctionOfWindowSums ==
    FatigueReturned =>
        /\ Len(result.V_fatigue_ts) = Len(call.voltage_signal)
        /\ step_function_of(result.V_fatigue_ts,
                            cumsum(own_window_sums(call.voltage_signal)))

\* C18 (as the specification states it): the samples handed to the cycle
\* counter for window k are the nonzero entries of the voltage signal at the
\* indices of window k, in order
C18_WindowSamplesAreOwnNonzero ==
    FatigueReturned =>
        \A k \in 1..Len(result.voltage_signal_temp) :
            result.voltage_signal_temp[k]
               = own_samples(call.voltage_signal, k - 1)

\* the previous entry of a cumulative series, 0 before the first timestep
before(s, t) == IF t = 1 THEN 0 ELSE s[t - 1]

\* dt * steady_deg_rate * V for a cell voltage V
uptime_increment(V) ==
    DivZ(MulDiv(MulDiv(V, steady_deg_rate, 100000000), dt, 100000000), 100)

\* C21: the cumulative uptime degradation does not change across a timestep
\* at which the cluster is off, and with uptime degradation enabled it grows
\* at every on-timestep by dt * steady_deg_rate * the cell voltage of that
\* timestep
C21_UptimeGrowsOnlyWhileOn ==
    Returned =>
        \A t \in Steps :
            /\ cluster_status[t] = 0 =>
                  output_dict.Breakdown.Uptime[t]
                     = before(output_dict.Breakdown.Uptime, t)
            /\ cluster_status[t] = 1 /\ run_flags[2] =>
                  output_dict.Breakdown.Uptime[t]
                     = before(output_dict.Breakdown.Uptime, t)
                          + uptime_increment(h2_results.V_cell_No_Deg[t])

\* a returned run that was on, off and on again with uptime degradation
\* enabled: the cumulative uptime degradation grew at the first and the third
\* timestep and stayed across the second
C21_Witness ==
    /\ Returned
    /\ run_flags[2]
    /\ cluster_status = <<1, 0, 1>>
    /\ output_dict.Breakdown.Uptime[1] > 0
    /\ output_dict.Breakdown.Uptime[2] = output_dict.Breakdown.Uptime[1]
    /\ output_dict.Breakdown.Uptime[3] > output_dict.Breakdown.Uptime[2]
    /\ h2_results.V_cell_No_Deg[2] > 0

\* V_signal of the latest returned run: the cell voltage where the cluster is
\* on, plus the cumulative uptime and cycling degradation at every timestep
V_signal ==
    arr([t \in Steps |->
        h2_results.V_cell_No_Deg[t] * cluster_status[t]
           + output_dict.Breakdown.Uptime[t]
           + output_dict.Breakdown.On_off[t]])

\* the timesteps whose samples are handed to the cycle counter for window i
counted_steps(signal, i) == nonzero(signal, win_lo(i), win_hi(i, Len(signal)))

\* C22 (as the specification states it): with fatigue degradation enabled no
\* sample of a timestep at which the cluster is off is handed to the cycle
\* counter of a window, also once the uptime and cycling degradation added to
\* the signal are above zero
C22_NoOffSampleCounted ==
    Returned /\ run_flags[3] =>
        \A i \in 0..(n_windows(Len(V_signal)) - 1) :
            \A k \in 1..Len(counted_steps(V_signal, i)) :
                cluster_status[counted_steps(V_signal, i)[k]] = 1

\* the cell voltage at the BOL current of the latest run, as run() hands it
\* to full_degradation
V_init_of_run ==
    arr([t \in Steps |-> cell_design(calc_current(delivered[t], curve_coeff))])

\* the uptime increments of a run with the BOL cell voltages V
uptime_increments(V) ==
    arr([t \in Steps |->
        cluster_status[t] * uptime_increment(V[t] * cluster_status[t])])

\* the cycling increments of the latest run
cycling_increments ==
    arr([t \in Steps |->
        IF off_transition(cluster_status, t) THEN onoff_deg_rate ELSE 0])

\* the fatigue running total on the signal s
fatigue_running_total(s) == approx_fatigue_degradation(s).V_fatigue_ts

\* C23: at every timestep the combined degradation signal is the cumulative
\* sum of the uptime increments plus the cumulative sum of the cycling
\* increments plus the fatigue running total, a disabled mechanism
\* contributing 0 at every timestep; run() reports that series as the system
\* degradation and adds it to the cell voltage at the corrected current
C23_CombinedDegradationSignal ==
    Degraded =>
        \E V \in {V_init_of_run} :
            /\ Len(cumulative_Vdeg_per_hr_sys) = Len(input_external_power_kw)
            /\ output_dict.Breakdown.Uptime
                  = IF run_flags[2] THEN cumsum(uptime_increments(V))
                    ELSE zeros(Len(input_external_power_kw))
            /\ output_dict.Breakdown.On_off
                  = IF run_flags[1] THEN cumsum(cycling_increments)
                    ELSE zeros(Len(input_external_power_kw))
            /\ output_dict.Breakdown.Fatigue
                  = IF run_flags[3]
                    THEN fatigue_running_total(
                            arr([t \in Steps |->
                                V[t] * cluster_status[t]
                                   + output_dict.Breakdown.Uptime[t]
                                   + output_dict.Breakdown.On_off[t]]))
                    ELSE zeros(Len(input_external_power_kw))
            /\ \A t \in Steps :
                  cumulative_Vdeg_per_hr_sys[t]
                     = output_dict.Breakdown.Uptime[t]
                          + output_dict.Breakdown.On_off[t]
                          + output_dict.Breakdown.Fatigue[t]
            /\ Returned =>
                  /\ h2_results.System_Degradation = cumulative_Vdeg_per_hr_sys
                  /\ \A t \in Steps :
                        h2_results.V_cell_With_Deg[t]
                           = cell_design(h2_results.Stack_Current[t])
                                + cumulative_Vdeg_per_hr_sys[t]

\* a returned run of three timesteps in which each mechanism contributed: the
\* reported degradation at the last timestep is the sum of the three and the
\* reported cell voltage lies above the voltage at the corrected current
C23_Witness ==
    /\ Returned
    /\ run_flags = <<TRUE, TRUE, TRUE>>
    /\ Len(input_external_power_kw) = 3
    /\ output_dict.Breakdown.Uptime[3] > 0
    /\ output_dict.Breakdown.On_off[3] > 0
    /\ output_dict.Breakdown.Fatigue[3] > 0
    /\ h2_results.System_Degradation[3]
          = output_dict.Breakdown.Uptime[3] + output_dict.Breakdown.On_off[3]
               + output_dict.Breakdown.Fatigue[3]
    /\ h2_results.V_cell_With_Deg[3]
          > cell_design(h2_results.Stack_Current[3])

\* find_equivalent_input_power_4_deg was called on its own
EquivalentCalled ==
    call # Unset /\ call.method = "find_equivalent_input_power_4_deg"
\* the timesteps of that call
EquivalentSteps == 1..Len(call.power_in_kW)
\* the current the second curve inversion gives at timestep t of that call
second_inversion(t) == calc_current(output_dict.Equivalent[t].P_equiv, curve_coeff)

\* C24: the equivalent current that find_equivalent_input_power_4_deg returns
\* is a number not below 0 at every timestep, whatever the delivered power and
\* the degradation: it is the result of the second curve inversion where that
\* is above 0, and 0 where that is negative, zero or undefined
C24_EquivalentCurrentNotNegative ==
    EquivalentCalled =>
        /\ Len(result.I_equiv) = Len(call.power_in_kW)
        /\ \A t \in EquivalentSteps :
              /\ result.I_equiv[t] \notin {NaN, Inf, NegInf}
              /\ result.I_equiv[t] >= 0
              /\ result.I_equiv[t]
                    = IF second_inversion(t) = NaN \/ second_inversion(t) <= 0
                      THEN 0 ELSE second_inversion(t)

\* a call in which the second inversion was negative at one timestep,
\* undefined at the other, and the equivalent current 0 at both
C24_Witness ==
    /\ EquivalentCalled
    /\ second_inversion(1) # NaN
    /\ second_inversion(1) < 0
    /\ second_inversion(2) = NaN
    /\ result.I_equiv = <<0, 0>>

\* calc_stack_replacement_info was called on its own
ReplacementCalled ==
    call # Unset /\ call.method = "calc_stack_replacement_info"

\* how many of the factors s are v
factor_count(s, v) == Cardinality({k \in DOMAIN s : s[k] = v})
\* the factors of a quotient
factors(q) == {q.num[k] : k \in DOMAIN q.num} \cup {q.den[k] : k \in DOMAIN q.den}
\* the quotient q is the number n: no factor of the denominator is 0, and the
\* factors of the numerator are those of the denominator and n
float_is(q, n) ==
    /\ factor_count(q.den, 0) = 0
    /\ \A v \in factors(q) \cup {n} :
          factor_count(q.num, v)
             = factor_count(q.den, v) + (IF v = n THEN 1 ELSE 0)

\* the hours a degradation signal covers
simulated_hours(deg_signal) == (Len(deg_signal) * dt) \div 3600

\* what C25 says of the latest call: the time to EOL is d_eol over the last
\* value of the signal times the simulated hours, and the count returned is
\* the plant life in hours over that time
C25_FromLastValue ==
    /\ time_between_replacements
          = [num |-> <<d_eol, simulated_hours(call.deg_signal) * 3600>>,
             den |-> <<call.deg_signal[Len(call.deg_signal)], 3600>>]
    /\ result.num_clusterrep
          = float_over(plant_life_years * 8760, time_between_replacements)

\* C25 (as the specification states it): the time to EOL and the count are
\* those, and the count times the time to EOL is the plant life in hours
C25_CountTimesTimeIsPlantLife ==
    ReplacementCalled =>
        /\ C25_FromLastValue
        /\ float_is(float_times(result.num_clusterrep, time_between_replacements),
                    plant_life_years * 8760)

\* C25: the time to EOL and the count are those; the count times the time to
\* EOL is the plant life in hours when the last value of the degradation
\* series is above 0, and when it is 0 the time to EOL is infinite and the
\* count is 0
C25_CountTimesTimeIsPlantLifeUnlessUndegraded ==
    ReplacementCalled =>
        /\ C25_FromLastValue
        /\ call.deg_signal[Len(call.deg_signal)] > 0 =>
              float_is(float_times(result.num_clusterrep,
                                   time_between_replacements),
                       plant_life_years * 8760)
        /\ call.deg_signal[Len(call.deg_signal)] = 0 =>
              /\ factor_count(time_between_replacements.den, 0) = 1
              /\ factor_count(time_between_replacements.num, 0) = 0
              /\ factor_count(result.num_clusterrep.num, 0) = 1
              /\ factor_count(result.num_clusterrep.den, 0) = 0

\* a call on a signal of two timesteps that starts at 0 and ends at d_eol, on
\* an engine of 30 years: d_eol/d_eol times 7200/3600 hours to EOL
C25_Witness ==
    /\ ReplacementCalled
    /\ plant_life_years = useful_life
    /\ call.deg_signal = <<0, d_eol>>
    /\ time_between_replacements
          = [num |-> <<d_eol, 7200>>, den |-> <<d_eol, 3600>>]
    /\ float_is(float_times(result.num_clusterrep, time_between_replacements),
                useful_life * 8760)

\* the production of one stack at a stack current
h2_produced_kg_hr(stack_current) == h2_production_rate(stack_current, 1)

\* C26: the system hydrogen production at a timestep is the number of stacks
\* in operation times the production of one stack at the stack current,
\* times the start-up multiplier; it is 0 at every timestep where the cluster
\* is off
C26_SystemProduction ==
    Returned =>
        \A t \in Steps :
            /\ h2_results.hydrogen_production_no_start_up_time[t]
                  = n_stacks_op[t] * h2_produced_kg_hr(h2_results.Stack_Current[t])
            /\ h2_results.hydrogen_hourly_production[t]
                  = h2_multiplier(
                       cluster_cycling(cluster_status)[t],
                       n_stacks_op[t]
                          * h2_produced_kg_hr(h2_results.Stack_Current[t]))
            /\ cluster_status[t] = 0 =>
                  /\ h2_results.hydrogen_production_no_start_up_time[t] = 0
                  /\ h2_results.hydrogen_hourly_production[t] = 0

\* a returned two-stack run that is off at one timestep, where the curve gives
\* a current below 0 for the power 0 and nothing is produced, and on at the
\* next, where the two stacks produce twice what one does, less the start-up
C26_Witness ==
    /\ Returned
    /\ max_stacks = 2
    /\ \E t \in Steps :
          /\ on_transition(cluster_status, t)
          /\ calc_current(h2_results.Power_Per_Stack[t - 1], curve_coeff) < 0
          /\ h2_results.hydrogen_hourly_production[t - 1] = 0
          /\ h2_produced_kg_hr(h2_results.Stack_Current[t]) > 0
          /\ h2_results.hydrogen_production_no_start_up_time[t]
                = 2 * h2_produced_kg_hr(h2_results.Stack_Current[t])
          /\ h2_results.hydrogen_hourly_production[t]
                < h2_results.hydrogen_production_no_start_up_time[t]

\* 39.41 * h2 / P in 10^-4 for a production h2 and a power P other than 0
hhv_efficiency(h2, P) == Sgn(P) * MulDiv(h2, 3941, 10 * Abs(P))

\* C27 (as the specification states it): the reported system efficiency at a
\* timestep is 39.41 times the hydrogen production rate over the power
\* consumed at that timestep
C27_EfficiencyOverPowerConsumed ==
    Returned =>
        \A t \in Steps :
            h2_results.Power_Consumed[t] # 0 =>
                h2_results.electrolyzer_total_efficiency_perc[t]
                   = hhv_efficiency(
                        h2_results.hydrogen_production_no_start_up_time[t],
                        h2_results.Power_Consumed[t])

\* C27: the reported system efficiency at a timestep is 39.41 times the
\* hydrogen production rate without start-up time over the input power of
\* that timestep, clamped to the capacity; where that power is 0 it is NaN,
\* nothing being produced there
C27_EfficiencyOverInputPower ==
    Returned =>
        \A t \in Steps :
            h2_results.electrolyzer_total_efficiency_perc[t]
               = IF supplied[t] = 0
                 THEN (IF h2_results.hydrogen_production_no_start_up_time[t] = 0
                       THEN NaN ELSE Inf)
                 ELSE hhv_efficiency(
                         h2_results.hydrogen_production_no_start_up_time[t],
                         supplied[t])

\* a returned run with a timestep at which the power consumed is above 0 and
\* differs from the input power, and the reported efficiency is the one over
\* the input power and not the one over the power consumed
C27_Witness ==
    /\ Returned
    /\ \E t \in Steps :
          /\ h2_results.Power_Consumed[t] > 0
          /\ h2_results.Power_Consumed[t] # supplied[t]
          /\ h2_results.electrolyzer_total_efficiency_perc[t] > 0
          /\ h2_results.electrolyzer_total_efficiency_perc[t]
                = hhv_efficiency(
                     h2_results.hydrogen_production_no_start_up_time[t],
                     supplied[t])
          /\ h2_results.electrolyzer_total_efficiency_perc[t]
                # hhv_efficiency(
                     h2_results.hydrogen_production_no_start_up_time[t],
                     h2_results.Power_Consumed[t])

\* the BOL current at timestep t of the call, I_in of line 209
I_in(t) == calc_current(call.power_in_kW[t], curve_coeff)

\* the consumed-power estimate is not below the delivered power at an
\* on-timestep; the consumption error is not below 0 and the adjusted power
\* target not above the delivered power at every timestep
C28_ConsumedNotBelowDelivered ==
    \A t \in EquivalentSteps :
        /\ cluster_status[t] = 1 =>
              output_dict.Equivalent[t].P_consumed_kW_init >= call.power_in_kW[t]
        /\ output_dict.Equivalent[t].P_consumed_kW_init - call.power_in_kW[t] >= 0
        /\ output_dict.Equivalent[t].P_equiv <= call.power_in_kW[t]
        /\ output_dict.Equivalent[t].P_equiv
              = call.power_in_kW[t]
                   - (output_dict.Equivalent[t].P_consumed_kW_init
                         - call.power_in_kW[t])

\* C28 (as the specification states it): that, and the equivalent current is
\* not above the BOL current at any timestep
C28_EquivalentNotAboveBOL ==
    EquivalentCalled =>
        /\ C28_ConsumedNotBelowDelivered
        /\ \A t \in EquivalentSteps : result.I_equiv[t] <= I_in(t)

\* C28: that, and the equivalent current is not above the BOL current at the
\* timesteps where the BOL current is not negative; where the curve gives a
\* negative BOL current the equivalent current is 0, above the BOL current
C28_EquivalentNotAboveBOLUnlessNegative ==
    EquivalentCalled =>
        /\ C28_ConsumedNotBelowDelivered
        /\ \A t \in EquivalentSteps :
              /\ I_in(t) >= 0 => result.I_equiv[t] <= I_in(t)
              /\ I_in(t) < 0 => result.I_equiv[t] = 0

\* a call in which the degraded stack would consume more than it is delivered
\* at both timesteps: the power target lies below the delivered power and
\* the equivalent current between 0 and the BOL current
C28_Witness ==
    /\ EquivalentCalled
    /\ call.V_deg = <<onoff_deg_rate, d_eol>>
    /\ \A t \in EquivalentSteps :
          /\ cluster_status[t] = 1
          /\ output_dict.Equivalent[t].P_consumed_kW_init > call.power_in_kW[t]
          /\ output_dict.Equivalent[t].P_equiv < call.power_in_kW[t]
          /\ result.I_equiv[t] > 0
          /\ result.I_equiv[t] < I_in(t)

\* C29 (as the specification states it): the adjusted power target that
\* find_equivalent_input_power_4_deg hands to the second curve inversion is
\* not negative at any timestep, whatever the delivered power and the
\* degradation, and the inversion is defined
C29_PowerTargetNotNegative ==
    EquivalentCalled =>
        \A t \in EquivalentSteps :
            /\ output_dict.Equivalent[t].P_equiv >= 0
            /\ second_inversion(t) # NaN

\* the number of 1 -> 0 transitions of a status series
off_transitions(status) ==
    Cardinality({t \in 1..Len(status) : off_transition(status, t)})

\* C30 (as the specification states it): the total of off-cycles that run()
\* returns is the number of 1 -> 0 transitions of the status series of that
\* run, with on/off degradation enabled or not and whatever was run before
C30_TotalOffCyclesOfThisRun ==
    Returned =>
        h2_results_aggregates.Total_Off_Cycles = off_transitions(cluster_status)

====
